---------------------------- MODULE Spec2Model ----------------------------
(***************************************************************************)
(* Model of lsst-ts/ts_authorize: the authorization-request handlers.      *)
(*                                                                         *)
(*   - BaseAuthorizeHandler.validate_request / process_authorize_request   *)
(*     (handler/base_authorize_handler.py),                                *)
(*   - AutoAuthorizeHandler.handle_authorize_request                       *)
(*     (handler/auto_authorize_handler.py),                                *)
(*   - RestAuthorizeHandler (handler/rest_authorize_handler.py): the       *)
(*     asyncio.Lock, the token, the aiohttp session, the periodic task.    *)
(*                                                                         *)
(* Python strings are sequences of one-character strings.  Every coroutine *)
(* is cut at its suspension points (await): one action is the code that    *)
(* runs between two suspensions of one asyncio task.                       *)
(***************************************************************************)
EXTENDS Integers, Sequences, FiniteSets, TLC

(***************************************************************************)
(* Bounds of the model.                                                    *)
(***************************************************************************)
\* number of polling tasks that exist at once without having ended; a task
\* that has ended leaves its place to the task a later start() creates
MaxPollers == 2

\* length of the strings the checks of utils.py and the field validation are
\* applied to
MaxLen == 4

(***************************************************************************)
(* Characters and strings.                                                 *)
(***************************************************************************)
Letter == {"A", "B", "C", "u", "h"}
Digit == {"1", "2"}

\* the line feed character
Newline == "\n"

\* the characters str.strip() removes
Whitespace == {" ", Newline}

\* [_A-Za-z0-9]
WordChar == Letter \cup Digit \cup {"_"}

\* [-._A-Za-z0-9]
NameChar == Letter \cup Digit \cup {"-", ".", "_"}

Range(s) == {s[i] : i \in 1..Len(s)}

\* s[i..j] (1-based, inclusive), the empty string when i > j
Slice(s, i, j) == [k \in 1..(IF j >= i THEN j - i + 1 ELSE 0) |-> s[i + k - 1]]

\* str.strip(): whitespace removed at both ends
RECURSIVE LStrip(_)
LStrip(s) == IF s # <<>> /\ Head(s) \in Whitespace THEN LStrip(Tail(s)) ELSE s

RECURSIVE RStrip(_)
RStrip(s) ==
  IF s # <<>> /\ s[Len(s)] \in Whitespace
  THEN RStrip(Slice(s, 1, Len(s) - 1)) ELSE s

Strip(s) == RStrip(LStrip(s))

\* str.split(","): the list of the pieces between commas; "" gives [""]
RECURSIVE SplitFrom(_, _, _)
SplitFrom(s, i, acc) ==
  IF i > Len(s) THEN <<acc>>
  ELSE IF s[i] = "," THEN <<acc>> \o SplitFrom(s, i + 1, <<>>)
  ELSE SplitFrom(s, i + 1, Append(acc, s[i]))

Split(s) == SplitFrom(s, 1, <<>>)

\* {val.strip() for val in string_to_split.split(",")}
set_from_comma_separated_string_NoStrip(s) == Range(Split(s))

set_from_comma_separated_string(s) == {Strip(v) : v \in Range(Split(s))}

\* "$" of a Python regular expression (no re.MULTILINE): the end of the
\* string, or the place before a line feed that ends the string.  The part
\* of s the pattern before "$" has to match, with or without that line feed:
BeforeDollar(s) ==
  {s} \cup (IF s # <<>> /\ s[Len(s)] = Newline
            THEN {Slice(s, 1, Len(s) - 1)} ELSE {})

\* ^[a-zA-Z][_A-Za-z0-9]*(:\d+)? at the whole of s
CscNameIndex(s) ==
  /\ Len(s) >= 1
  /\ s[1] \in Letter
  /\ \E k \in 1..Len(s) :
       /\ \A i \in 2..k : s[i] \in WordChar
       /\ \/ k = Len(s)
          \/ /\ k + 2 <= Len(s)
             /\ s[k + 1] = ":"
             /\ \A i \in (k + 2)..Len(s) : s[i] \in Digit

\* CSC_NAME_INDEX_RE = ^[a-zA-Z][_A-Za-z0-9]*(:\d+)?$
CSC_NAME_INDEX_RE(s) == \E b \in BeforeDollar(s) : CscNameIndex(b)

\* ^[a-zA-Z][-._A-Za-z0-9]*@[a-zA-Z0-9][-._A-Za-z0-9]* at the whole of s
UserHost(s) ==
  /\ Len(s) >= 3
  /\ s[1] \in Letter
  /\ \E k \in 2..(Len(s) - 1) :
       /\ s[k] = "@"
       /\ \A i \in 2..(k - 1) : s[i] \in NameChar
       /\ s[k + 1] \in Letter \cup Digit
       /\ \A i \in (k + 2)..Len(s) : s[i] \in NameChar

\* USER_HOST_RE = ^[a-zA-Z][-._A-Za-z0-9]*@[a-zA-Z0-9][-._A-Za-z0-9]*$
USER_HOST_RE(s) == \E b \in BeforeDollar(s) : UserHost(b)

\* check_csc: TRUE when the value is returned, FALSE when ValueError is raised
check_csc(csc) == CSC_NAME_INDEX_RE(csc)

\* check_user_host: TRUE when the value is returned, FALSE for ValueError
check_user_host(user_host) == USER_HOST_RE(user_host)

\* the "+" or "-" prefix of authorized_users / non_authorized_cscs removed
StripPrefix_Never(s) == s

StripPrefix(s) == IF s # <<>> /\ s[1] \in {"+", "-"} THEN Tail(s) ELSE s

(***************************************************************************)
(* BaseAuthorizeHandler.validate_request (the same code is repeated in     *)
(* AutoAuthorizeHandler.validate_request and Authorize.validate_request).  *)
(* The result is the exception raised ("none" when the request passes).    *)
(***************************************************************************)
ValidateError_TargetsOnly(data) ==
  LET cscs == set_from_comma_separated_string(data.cscs_to_change)
  IN  IF cscs = {} THEN "ExpectedError"
      ELSE IF \E c \in cscs : ~check_csc(c) THEN "ValueError"
      ELSE "none"

\* lines 152-157: the check of authorized_users
UsersError(auth_users) ==
  IF /\ auth_users # <<>>
     /\ \E u \in Range(Split(StripPrefix(auth_users))) :
            ~check_user_host(Strip(u))
  THEN "ValueError" ELSE "none"

\* lines 159-164: the check of non_authorized_cscs
NonAuthCscsError(nonauth_cscs) ==
  IF /\ nonauth_cscs # <<>>
     /\ \E c \in Range(Split(StripPrefix(nonauth_cscs))) :
            ~check_csc(Strip(c))
  THEN "ValueError" ELSE "none"

ValidateError(data) ==
  LET cscs == set_from_comma_separated_string(data.cscs_to_change)
  IN  IF cscs = {} THEN "ExpectedError"
      ELSE IF \E c \in cscs : ~check_csc(c) THEN "ValueError"
      ELSE IF UsersError(data.authorized_users) # "none" THEN "ValueError"
      ELSE IF NonAuthCscsError(data.non_authorized_cscs) # "none"
           THEN "ValueError"
      ELSE "none"

\* the set validate_request returns
validate_request(data) == set_from_comma_separated_string(data.cscs_to_change)


(***************************************************************************)
(* Request data.  AuthRequestData (handler_utils.py) has four string       *)
(* fields; private_identity plays no part in validation or delivery.       *)
(***************************************************************************)
AuthRequestData(cscs, users, ncscs) ==
  [cscs_to_change |-> cscs, authorized_users |-> users,
   non_authorized_cscs |-> ncscs]

\* "+u@h"
UsersPlus == <<"+", "u", "@", "h">>

\* "u@h, h@u"
UsersTwo == <<"u", "@", "h", ",", " ", "h", "@", "u">>

\* the requests a caller passes in
DispatchInputs ==
  { AuthRequestData(<<"A", ",", " ", "B", ",", "C">>, UsersPlus, <<>>),
    AuthRequestData(<<"B", ",", "A", ",", "B">>, UsersTwo, <<"-", "C", ":", "1">>),
    AuthRequestData(<<"C">>, <<>>, <<>>),
    AuthRequestData(<<>>, UsersPlus, <<"A">>),
    AuthRequestData(<<" ">>, UsersPlus, <<>>),
    AuthRequestData(<<"A", ",", "_", "B">>, UsersPlus, <<>>),
    AuthRequestData(<<"A">>, <<"_", "u", "@", "h">>, <<>>) }

\* the records the approval service lists as approved and not yet executed
\* (the JSON list the GET returns), in list order
ServiceRecords ==
  << [id |-> 1, data |-> AuthRequestData(<<"A", ",", "B">>, UsersPlus, <<>>)],
     [id |-> 2, data |-> AuthRequestData(<<"C">>, UsersTwo, <<>>)] >>

\* a list whose first record names a malformed user ("u") and whose second
\* record is well formed
FaultyRecords ==
  << [id |-> 3, data |-> AuthRequestData(<<"A">>, <<"u">>, <<>>)],
     [id |-> 4, data |-> AuthRequestData(<<"C">>, UsersPlus, <<>>)] >>

\* the request a submit forwards
SubmitInput == AuthRequestData(<<"A", ",", "B">>, UsersTwo, <<>>)

\* every CSC a valid request of the model names
TargetNames ==
  UNION { validate_request(d) :
            d \in { x \in DispatchInputs : ValidateError(x) = "none" } }

(***************************************************************************)
(* How a target answers cmd_setAuthList.set_start (salobj):                *)
(*   up       the command is acknowledged, the target's authList changes   *)
(*   down     no acknowledgement within TIMEOUT_SET_AUTH_LIST: AckError    *)
(*   reject   the target answers with a failed ack: AckError               *)
(***************************************************************************)
AckNatures == {"up", "down", "reject"}

\* a target no Remote can be constructed for (salobj knows no component of
\* that name): salobj.Remote(...) raises RuntimeError, which is no AckError
Natures == AckNatures \cup {"absent"}

AckErrorMessage(n) ==
  IF n = "down" THEN "Timed out waiting for command acknowledgement"
  ELSE "Failed"

(***************************************************************************)
(* Tasks.  A caller task is the coroutine that calls the handler (the     *)
(* CSC's command callback, a test); a poller task is the asyncio task      *)
(* RestAuthorizeHandler.start creates for perform_periodic_task.           *)
(***************************************************************************)
Callers == {"c1"}

\* two coroutines that call the same handler object
ConcurrentCallers == {"c1", "c2"}
PollerNames == <<"p1", "p2", "p3", "p4">>
Pollers == {PollerNames[i] : i \in 1..MaxPollers}
Tasks == ConcurrentCallers \cup Pollers

\* the operations whose REST calls go through RestAuthorizeHandler
RestOps == {"submit", "reconcile", "poll"}

VARIABLES
  pc,                   \* task -> where the task is suspended
  loc,                  \* task -> the local variables of its running call
  csc_failed_messages,  \* handler.csc_failed_messages: csc -> message
  cscs_succeeded,       \* handler.cscs_succeeded
  nature,               \* csc -> how the target answers (the environment)
  authList,             \* csc -> the last setAuthList the target accepted
  token,                \* RestAuthorizeHandler.token
  session,              \* RestAuthorizeHandler._client_session
  lock,                 \* RestAuthorizeHandler.lock: "free" or the holder
  waiters,              \* the tasks queued in lock.acquire(), oldest first
  periodic_task,        \* RestAuthorizeHandler.periodic_task
  cancelReq,            \* task -> Task.cancel() was called, not yet delivered
  puts,                 \* the execute PUTs the approval service has received
  stopped,              \* "idle" when the last stop() found no polling task
                        \* alive and no start() or __aenter__ ran since
  csc,                  \* the Authorize CSC: its config, the last configure
  conv                  \* a pure function of the package, its input and its
                        \* result

vars == <<pc, loc, csc_failed_messages, cscs_succeeded, nature, authList,
          token, session, lock, waiters, periodic_task, cancelReq, puts,
          stopped, csc, conv>>

\* the variables of the handler, the CSC and their environment
objectVars == <<pc, loc, csc_failed_messages, cscs_succeeded, nature, authList,
                token, session, lock, waiters, periodic_task, cancelReq, puts,
                stopped, csc>>

restVars == <<token, session, stopped, lock, waiters, periodic_task,
              cancelReq>>

EmptyMap == [c \in {} |-> ""]

\* the authList of a target no setAuthList has reached
Unset == <<"unset">>

\* Authorize.__init__: self.config = None; nothing was configured yet
NoConfig == [auto_authorization |-> "None"]

InitCsc == [config |-> NoConfig, requested |-> NoConfig, error |-> "none"]

\* no function was applied
NoConv == [kind |-> "none", input |-> <<>>, fn |-> "none", result |-> "none"]

NoData == AuthRequestData(<<>>, <<>>, <<>>)

InitLoc ==
  [op |-> "none", data |-> NoData, exc |-> "none",
   cscs |-> {}, todo |-> {}, cur |-> <<>>, contacted |-> <<>>,
   failed |-> {}, rec |-> 0, left |-> <<>>, sentToken |-> ""]

\* the locals of a REST operation that ends with `exc`: the frame is gone.
\* The caller that awaited the operation receives the exception; the record
\* the operation was working on and the records it had not reached are
\* remembered.  Nothing awaits the periodic task: what it ended with is
\* seen by nobody.
EndLoc(lc, exc) ==
  IF lc.op = "poll"
  THEN InitLoc
  ELSE [lc EXCEPT !.exc = exc, !.data = NoData, !.cscs = {}, !.todo = {},
                  !.cur = <<>>, !.contacted = <<>>, !.failed = {},
                  !.sentToken = ""]

\* the pcs at which a call has ended
Ended == {"returned", "raised", "cancelled"}

\* the pc of task t when it ends as `how`.  A task object lives on while
\* something refers to it: a caller is kept by its own caller, a polling task
\* by self.periodic_task; a polling task the handler no longer refers to is
\* gone once it has ended.
EndPc(t, how) == IF t \in Pollers /\ periodic_task # t THEN "unborn" ELSE how

\* BaseAuthorizeHandler.__init__ and RestAuthorizeHandler.__init__
InitObjects ==
  /\ pc = [t \in Tasks |-> IF t \in ConcurrentCallers THEN "idle"
                           ELSE "unborn"]
  /\ loc = [t \in Tasks |-> InitLoc]
  /\ csc_failed_messages = EmptyMap
  /\ cscs_succeeded = {}
  /\ authList = [c \in TargetNames |-> Unset]
  /\ token = ""
  /\ session = "none"
  /\ lock = "free"
  /\ waiters = <<>>
  /\ periodic_task = "done_future"
  /\ cancelReq = [t \in Tasks |-> FALSE]
  /\ puts = <<>>
  /\ stopped = "no"
  /\ csc = InitCsc

\* the handler as constructed; no function of the package is under study
InitHandler ==
  /\ InitObjects
  /\ conv = NoConv

Init ==
  /\ InitHandler
  /\ nature \in [TargetNames -> AckNatures]

(***************************************************************************)
(* The delivery loop of process_authorize_request (lines 96-119), of       *)
(* AutoAuthorizeHandler.handle_authorize_request and of                    *)
(* Authorize.do_requestAuthorization.                                      *)
(***************************************************************************)

\* except salobj.AckError: the failure is recorded and the for loop goes on
\* with the CSCs still to command
AfterAckError_Break(todo) == {}

AfterAckError(todo) == todo

\* self.cscs_succeeded = cscs_to_command - self.csc_failed_messages.keys()
Succeeded_NoSubtract(cscs, failedKeys) == cscs

Succeeded(cscs, failedKeys) == cscs \ failedKeys

\* if len(cscs_failed_to_set_auth_list) > 0: raise RuntimeError
ShouldRaise_MoreThanOne(failed) == Cardinality(failed) > 1

ShouldRaise(failed) == Cardinality(failed) > 0

\* the RuntimeError of AutoAuthorizeHandler.handle_authorize_request: its
\* message names the CSCs that failed and the CSCs that were updated; the
\* reason of a failure (e.args[0]) is written to the log only
AutoErrorMessage(cscs, failed) ==
  [failed |-> failed, succeeded |-> cscs \ failed, reasons |-> {}]

\* the arguments of cmd_setAuthList.set_start (lines 105-109): the two
\* strings of the request as they are
SetAuthListArgs_Stripped(data) ==
  <<StripPrefix(data.authorized_users), StripPrefix(data.non_authorized_cscs)>>

SetAuthListArgs(data) == <<data.authorized_users, data.non_authorized_cscs>>

\* self.csc_failed_messages[csc_name_index] = e.args[0]
RecordFailure_Drop(messages, c, message) == messages

RecordFailure(messages, c, message) == (c :> message) @@ messages

\* the call begins: validate_request, then (process_authorize_request only)
\* the two handler fields are reset, then the first CSC of the set is
\* contacted.  Python iterates a set in no order the code chooses.
BeginCall(t, op, data, rec, left) ==
  LET err == ValidateError(data)
      cscs == validate_request(data)
      base == [loc[t] EXCEPT !.op = op, !.data = data, !.exc = err,
                             !.rec = rec, !.left = left, !.cscs = {},
                             !.todo = {},
                             !.cur = <<>>, !.contacted = <<>>, !.failed = {}]
  IN  IF err # "none"
      THEN /\ pc' = [pc EXCEPT ![t] = EndPc(t, "raised")]
           /\ loc' = [loc EXCEPT ![t] = base]
           /\ UNCHANGED <<csc_failed_messages, cscs_succeeded>>
      ELSE /\ \E c \in cscs :
                loc' = [loc EXCEPT ![t] =
                          [base EXCEPT !.cscs = cscs, !.todo = cscs \ {c},
                                       !.cur = c, !.contacted = <<c>>]]
           /\ pc' = [pc EXCEPT ![t] = "set_wait"]
           /\ IF op = "auto"
              THEN UNCHANGED <<csc_failed_messages, cscs_succeeded>>
              ELSE /\ csc_failed_messages' = EmptyMap
                   /\ cscs_succeeded' = {}

\* a caller calls handler.process_authorize_request(data)
CallProcess(t) ==
  /\ pc[t] \in {"idle", "returned", "raised"}
  /\ \E data \in DispatchInputs : BeginCall(t, "process", data, 0, <<>>)
  /\ UNCHANGED <<puts, nature, csc, conv, authList, restVars>>

\* a caller calls AutoAuthorizeHandler.handle_authorize_request(data)
CallAuto(t) ==
  /\ pc[t] \in {"idle", "returned", "raised"}
  /\ \E data \in DispatchInputs : BeginCall(t, "auto", data, 0, <<>>)
  /\ UNCHANGED <<puts, nature, csc, conv, authList, restVars>>

\* what "await self.process_authorize_request(data=data)" evaluates to: the
\* coroutine is declared "-> None" and has no return statement
process_authorize_request_returns == "None"

\* "(csc_failed_messages, cscs_succeeded) = <value>": a pair is unpacked,
\* None is not iterable
UnpackPair(value) == IF value = "pair" THEN "none" ELSE "TypeError"

\* the outcome of lines 202-205 of rest_authorize_handler.py
Unpacked == UnpackPair(process_authorize_request_returns)

\* the code point of a character, the order sorted() uses
CodePoint(ch) ==
  CASE ch = " " -> 32 [] ch = "+" -> 43 [] ch = "," -> 44 [] ch = "-" -> 45
    [] ch = "." -> 46 [] ch = "1" -> 49 [] ch = "2" -> 50 [] ch = ":" -> 58
    [] ch = "@" -> 64 [] ch = "A" -> 65 [] ch = "B" -> 66 [] ch = "C" -> 67
    [] ch = "_" -> 95 [] ch = "h" -> 104 [] ch = "u" -> 117

\* a < b for two Python strings
RECURSIVE StrLess(_, _)
StrLess(a, b) ==
  IF b = <<>> THEN FALSE
  ELSE IF a = <<>> THEN TRUE
  ELSE IF Head(a) = Head(b) THEN StrLess(Tail(a), Tail(b))
  ELSE CodePoint(Head(a)) < CodePoint(Head(b))

\* sorted(S) for a set of strings
RECURSIVE sorted(_)
sorted(S) ==
  IF S = {} THEN <<>>
  ELSE LET m == CHOOSE x \in S : \A y \in S \ {x} : StrLess(x, y)
       IN  <<m>> \o sorted(S \ {m})

\* ExecutionStatus.SUCCESSFUL unless a CSC failed (lines 208, 214-215)
execution_status(failedKeys) ==
  IF Cardinality(failedKeys) > 0 THEN "Failed" ELSE "Successful"

\* the execution message (lines 209-221): the sorted names it lists as updated
\* and, when a CSC failed, the sorted names it lists as failed
execution_message(failedKeys, succeeded) ==
  [updated |-> sorted(succeeded),
   failed |-> IF Cardinality(failedKeys) > 0 THEN sorted(failedKeys)
              ELSE <<>>]

\* the execute PUT of a record (lines 222-229)
PutRequest(id, failedKeys, succeeded) ==
  [id |-> id, execution_status |-> execution_status(failedKeys),
   execution_message |-> execution_message(failedKeys, succeeded)]

\* the awaited cmd_setAuthList.set_start of the current CSC ends: the loop
\* body finishes and either the next CSC is contacted or the loop ends.  In
\* the REST handler the result is then unpacked and the record's PUT sent;
\* the handling of the PUT's answer (lines 231-252) is never reached.
SetAuthListDone(t) ==
  /\ pc[t] = "set_wait"
  /\ ~cancelReq[t]
  /\ nature[loc[t].cur] \in AckNatures
  /\ LET c == loc[t].cur
         op == loc[t].op
         ok == nature[c] = "up"
         fm == IF ok \/ op = "auto" THEN csc_failed_messages
               ELSE RecordFailure(csc_failed_messages, c,
                                  AckErrorMessage(nature[c]))
         fl == IF ok \/ op # "auto" THEN loc[t].failed
               ELSE loc[t].failed \cup {c}
         todo == IF ok THEN loc[t].todo ELSE AfterAckError(loc[t].todo)
     IN  /\ authList' = IF ok
                        THEN [authList EXCEPT ![c] =
                                SetAuthListArgs(loc[t].data)]
                        ELSE authList
         /\ csc_failed_messages' = fm
         /\ IF todo # {}
            THEN /\ \E n \in todo :
                      loc' = [loc EXCEPT ![t] =
                                [@ EXCEPT !.failed = fl, !.todo = todo \ {n},
                                          !.cur = n,
                                          !.contacted = Append(@, n)]]
                 /\ UNCHANGED <<pc, cscs_succeeded, lock, puts>>
            ELSE /\ loc' = [loc EXCEPT ![t] =
                              IF op \in RestOps
                              THEN IF Unpacked = "none"
                                   THEN [@ EXCEPT !.todo = {}]
                                   ELSE EndLoc(@, Unpacked)
                              ELSE [@ EXCEPT !.failed = fl, !.todo = {},
                                      !.exc = IF op = "auto" /\ ShouldRaise(fl)
                                              THEN "RuntimeError"
                                              ELSE "none"]]
                 /\ cscs_succeeded' =
                      IF op = "auto" THEN cscs_succeeded
                      ELSE Succeeded(loc[t].cscs, DOMAIN fm)
                 /\ pc' = [pc EXCEPT ![t] =
                             IF op = "auto"
                             THEN IF ShouldRaise(fl) THEN EndPc(t, "raised")
                                  ELSE "returned"
                             ELSE IF op = "process" THEN "returned"
                             ELSE IF Unpacked = "none" THEN "put_wait"
                             ELSE EndPc(t, "raised")]
                 /\ lock' = IF op \in RestOps /\ Unpacked # "none"
                            THEN "free" ELSE lock
                 /\ puts' = IF op \in RestOps /\ Unpacked = "none"
                            THEN Append(puts,
                                   PutRequest(loc[t].rec, DOMAIN fm,
                                     Succeeded(loc[t].cscs, DOMAIN fm)))
                            ELSE puts
  /\ UNCHANGED <<nature, csc, conv, token, session, stopped, waiters, periodic_task, cancelReq>>

\* salobj.Remote(...) raises for the current CSC: the exception is no
\* AckError, it leaves the for loop and the call (and, in the REST handler,
\* the "async with self.lock" around it)
RemoteFails(t) ==
  /\ pc[t] = "set_wait"
  /\ ~cancelReq[t]
  /\ nature[loc[t].cur] = "absent"
  /\ pc' = [pc EXCEPT ![t] = EndPc(t, "raised")]
  /\ loc' = [loc EXCEPT ![t] =
               IF loc[t].op \in RestOps THEN EndLoc(@, "RuntimeError Remote")
               ELSE [@ EXCEPT !.exc = "RuntimeError Remote"]]
  /\ lock' = IF loc[t].op \in RestOps THEN "free" ELSE lock
  /\ UNCHANGED <<csc_failed_messages, cscs_succeeded, puts, nature, csc, conv,
                 authList, token, session, stopped, waiters, periodic_task,
                 cancelReq>>

NextDispatch ==
  \/ \E t \in Callers : CallProcess(t)
  \/ \E t \in Callers : CallAuto(t)
  \/ \E t \in Callers : SetAuthListDone(t)

SpecDispatch == Init /\ [][NextDispatch]_vars

\* the delivery loop where a target may also be one no Remote can be made for
InitAnyTarget ==
  /\ InitHandler
  /\ nature \in [TargetNames -> Natures]

NextAnyTarget ==
  \/ \E t \in Callers : CallProcess(t)
  \/ \E t \in Callers : CallAuto(t)
  \/ \E t \in Callers : SetAuthListDone(t)
  \/ \E t \in Callers : RemoteFails(t)

SpecAnyTarget == InitAnyTarget /\ [][NextAnyTarget]_vars

(***************************************************************************)
(* The Authorize CSC (authorize.py): configure and the requestAuthorization *)
(* command.                                                                *)
(***************************************************************************)

\* the configurations the schema admits: auto_authorization is a boolean
Configs == {[auto_authorization |-> "True"], [auto_authorization |-> "False"]}

\* Authorize.configure(config): NotImplementedError unless
\* config.auto_authorization, otherwise self.config = config
configure(cfg) ==
  IF cfg.auto_authorization # "True"
  THEN [csc EXCEPT !.requested = cfg, !.error = "NotImplementedError"]
  ELSE [config |-> cfg, requested |-> cfg, error |-> "none"]

\* the CSC is configured (the start command)
Configure ==
  /\ \E cfg \in Configs : csc' = configure(cfg)
  /\ UNCHANGED <<pc, loc, csc_failed_messages, cscs_succeeded, puts, nature,
                 authList, restVars, conv>>

\* Authorize.do_requestAuthorization: the CSC was configured and enabled; it
\* validates and runs the delivery loop of the immediate strategy
do_requestAuthorization(t) ==
  /\ csc.config # NoConfig
  /\ CallAuto(t)

NextCsc ==
  \/ Configure
  \/ \E t \in Callers : do_requestAuthorization(t)
  \/ \E t \in Callers : SetAuthListDone(t)

SpecCsc == Init /\ [][NextCsc]_vars


(***************************************************************************)
(* The checks of utils.py and handler_utils.py, the field validation of    *)
(* validate_request and the conversions of the REST handler, each applied  *)
(* to one input.                                                           *)
(***************************************************************************)

\* every string of at most n characters of the alphabet
StringsOver(alphabet, n) == UNION {[1..k -> alphabet] : k \in 0..n}

\* the characters of the strings the checks are applied to
CheckAlphabet == {"A", "1", "_", ":", "-", ".", "@", Newline}

\* the characters of the field values the validation is applied to
FieldAlphabet == {"A", "1", ":", "@", "+", "-", ",", " "}

\* the function is applied to the input
Apply(fn, result) ==
  /\ conv.fn = "none"
  /\ conv' = [conv EXCEPT !.fn = fn, !.result = result]
  /\ UNCHANGED objectVars

\* utils.check_csc(csc)
CheckCsc ==
  /\ conv.kind = "string"
  /\ Apply("check_csc",
           IF check_csc(conv.input) THEN "accepted" ELSE "ValueError")

\* utils.check_user_host(user_host)
CheckUserHost ==
  /\ conv.kind = "string"
  /\ Apply("check_user_host",
           IF check_user_host(conv.input) THEN "accepted" ELSE "ValueError")

\* handler_utils.all_components: the components that have an IDL file
all_components == {<<"A">>}

\* the name part of name[:index]
RECURSIVE NamePart(_)
NamePart(s) ==
  IF s = <<>> \/ Head(s) = ":" THEN <<>> ELSE <<Head(s)>> \o NamePart(Tail(s))

\* handler_utils.check_cscs({csc}): ValueError unless the value matches the
\* pattern and names a known component
check_cscs(value) ==
  IF ~CSC_NAME_INDEX_RE(value) \/ NamePart(value) \notin all_components
  THEN "ValueError" ELSE "accepted"

CheckCscs ==
  /\ conv.kind = "string"
  /\ Apply("check_cscs", check_cscs(conv.input))

\* handler_utils.check_user_hosts({user_host}): ValueError unless the value
\* matches the pattern
check_user_hosts(value) ==
  IF ~USER_HOST_RE(value) THEN "ValueError" ELSE "accepted"

CheckUserHosts ==
  /\ conv.kind = "string"
  /\ Apply("check_user_hosts", check_user_hosts(conv.input))

InitCheck ==
  /\ InitObjects
  /\ nature = [c \in TargetNames |-> "up"]
  /\ conv \in {[kind |-> "string", input |-> s, fn |-> "none",
                 result |-> "none"] : s \in StringsOver(CheckAlphabet, MaxLen)}

NextCheck ==
  \/ CheckCsc
  \/ CheckCscs
  \/ CheckUserHost
  \/ CheckUserHosts

SpecCheck == InitCheck /\ [][NextCheck]_vars

\* validate_request, lines 152-157, on a value of authorized_users
ValidateUsers ==
  /\ conv.kind = "string"
  /\ Apply("authorized_users", UsersError(conv.input))

\* validate_request, lines 159-164, on a value of non_authorized_cscs
ValidateNonAuthCscs ==
  /\ conv.kind = "string"
  /\ Apply("non_authorized_cscs", NonAuthCscsError(conv.input))

\* a value of a JSON document: a string, or null
JStr(s) == [json |-> "string", value |-> s]

JNull == [json |-> "null", value |-> <<>>]

\* str(value) for a value decoded from JSON
PyStr(j) == IF j.json = "string" THEN j.value ELSE <<"N", "o", "n", "e">>

\* the records of the approval service the conversions are applied to
JsonRecords ==
  [cscs_to_change : {JStr(<<"A", ",", " ", "B">>), JStr(<<"C">>)},
   authorized_users : {JStr(UsersPlus), JStr(<<"-">> \o UsersTwo), JStr(<<>>)},
   unauthorized_cscs : {JStr(<<"-", "C", ":", "1">>), JStr(<<"+", "A">>),
                        JStr(<<>>), JNull},
   requested_by : {JStr(<<"u", "@", "h">>)}]

\* lines 196-201: AuthRequestData(...) from a record of the GET response
AuthRequestDataFromRecord(response) ==
  [authorized_users |-> PyStr(response.authorized_users),
   cscs_to_change |-> PyStr(response.cscs_to_change),
   non_authorized_cscs |-> PyStr(response.unauthorized_cscs),
   private_identity |-> PyStr(response.requested_by)]

\* lines 166-171: the JSON document handle_authorize_request posts
RequestJson_Swapped(data) ==
  [cscs_to_change |-> JStr(data.cscs_to_change),
   authorized_users |-> JStr(data.non_authorized_cscs),
   unauthorized_cscs |-> JStr(data.authorized_users),
   requested_by |-> JStr(data.private_identity)]

RequestJson(data) ==
  [cscs_to_change |-> JStr(data.cscs_to_change),
   authorized_users |-> JStr(data.authorized_users),
   unauthorized_cscs |-> JStr(data.non_authorized_cscs),
   requested_by |-> JStr(data.private_identity)]

\* a record is converted to AuthRequestData and that to the posted document
RoundTrip ==
  /\ conv.kind = "record"
  /\ Apply("roundtrip", RequestJson(AuthRequestDataFromRecord(conv.input)))

InitValidate ==
  /\ InitObjects
  /\ nature = [c \in TargetNames |-> "up"]
  /\ conv \in
       {[kind |-> "string", input |-> s, fn |-> "none", result |-> "none"] :
          s \in StringsOver(FieldAlphabet, MaxLen)}
       \cup
       {[kind |-> "record", input |-> r, fn |-> "none", result |-> "none"] :
          r \in JsonRecords}

NextValidate ==
  \/ ValidateUsers
  \/ ValidateNonAuthCscs
  \/ RoundTrip

SpecValidate == InitValidate /\ [][NextValidate]_vars


(***************************************************************************)
(* RestAuthorizeHandler: the REST calls, each made inside                  *)
(* "async with self.lock, self.client_session.<verb>(...) as resp".        *)
(***************************************************************************)

\* the answers of the approval service: an HTTP status, or no answer at all
HttpStatuses == {"200", "201", "400", "unreachable"}

\* the token the get-token endpoint hands to task t's authenticate: the
\* tokens of different authenticate calls are told apart by the caller
TokenFor(t) == t

\* the exception a failed REST call raises; the RuntimeError of _get_response
\* names the HTTP status
ErrorOf(status) ==
  CASE status = "unreachable" -> "ClientError"
    [] status = "200" -> "RuntimeError 200"
    [] status = "201" -> "RuntimeError 201"
    [] status = "400" -> "RuntimeError 400"

\* _get_response: resp.status == HTTPStatus.OK, otherwise RuntimeError
\* (an unreachable service raises in the request itself)
get_response_ok(status) == status = "200"

\* RestAuthorizeHandler's initial environment: "A" is down, the other
\* targets are up, so a record naming "A" and "B" has one target of each kind
InitRest ==
  /\ InitHandler
  /\ nature \in { [c \in TargetNames |-> IF c = <<"A">> THEN "down" ELSE "up"] }

\* asyncio.Lock.acquire returns at once when the lock is not held and every
\* queued waiter is cancelled; otherwise the task queues and suspends
CanAcquire_Always(lockNow) == TRUE

CanAcquire(lockNow) ==
  /\ lockNow = "free"
  /\ \A i \in 1..Len(waiters) : cancelReq[waiters[i]]

\* the pc of a task suspended in lock.acquire() / in the REST call of `stage`
LockPc(stage) == IF stage = "auth" THEN "auth_lock"
                 ELSE IF stage = "get" THEN "get_lock" ELSE "post_lock"

WaitPc(stage) == IF stage = "auth" THEN "auth_wait"
                 ELSE IF stage = "get" THEN "get_wait" ELSE "post_wait"

StageOf(p) == IF p = "auth_lock" THEN "auth"
              ELSE IF p = "get_lock" THEN "get" ELSE "post"

\* the task holds the lock and evaluates self.client_session.<verb>(...):
\* the property asserts the session exists, aiohttp refuses a closed
\* session; either exception leaves the "async with" and frees the lock.
\* The Authorization header is read from self.token here.
Locked(t, stage, lc, tok, ws) ==
  /\ waiters' = ws
  /\ IF session # "open"
     THEN /\ pc' = [pc EXCEPT ![t] = EndPc(t, "raised")]
          /\ lock' = "free"
          /\ loc' = [loc EXCEPT ![t] =
                       EndLoc(lc, IF session = "none" THEN "AssertionError"
                                  ELSE "RuntimeError Session is closed")]
     ELSE /\ pc' = [pc EXCEPT ![t] = WaitPc(stage)]
          /\ lock' = t
          /\ loc' = [loc EXCEPT ![t] =
                       [lc EXCEPT !.sentToken = IF stage = "auth" THEN ""
                                                ELSE tok]]

\* "async with self.lock, ..." is reached: the lock is taken at once, or the
\* task queues behind the waiters
EnterLocked(t, stage, lc, tok, lockNow) ==
  IF CanAcquire(lockNow)
  THEN Locked(t, stage, lc, tok, waiters)
  ELSE /\ pc' = [pc EXCEPT ![t] = LockPc(stage)]
       /\ waiters' = Append(waiters, t)
       /\ lock' = lockNow
       /\ loc' = [loc EXCEPT ![t] = lc]

\* release() has woken the first waiter: it takes the lock and goes on
LockGranted(t) ==
  /\ pc[t] \in {"auth_lock", "get_lock", "post_lock"}
  /\ lock = "free"
  /\ waiters # <<>>
  /\ Head(waiters) = t
  /\ ~cancelReq[t]
  /\ Locked(t, StageOf(pc[t]), loc[t], token, Tail(waiters))
  /\ UNCHANGED <<csc_failed_messages, cscs_succeeded, puts, nature, csc, conv, authList,
                 token, session, stopped, periodic_task, cancelReq>>

\* a new operation of the handler starts with "await self.authenticate()"
BeginOp(t, op, data) ==
  /\ EnterLocked(t, "auth",
                 [loc[t] EXCEPT !.op = op, !.data = data, !.exc = "none",
                                !.rec = 0, !.left = <<>>, !.cscs = {},
                                !.todo = {},
                                !.cur = <<>>, !.contacted = <<>>,
                                !.failed = {}, !.sentToken = ""],
                 token, lock)
  /\ UNCHANGED <<csc_failed_messages, cscs_succeeded, puts, nature, csc, conv, authList,
                 token, session, stopped, periodic_task, cancelReq>>

\* RestAuthorizeHandler.handle_authorize_request is called
Submit(t) ==
  /\ pc[t] \in {"idle", "returned", "raised"}
  /\ BeginOp(t, "submit", SubmitInput)

\* process_approved_and_unprocessed_auth_requests is called directly
ManualReconcile(t) ==
  /\ pc[t] \in {"idle", "returned", "raised"}
  /\ BeginOp(t, "reconcile", NoData)

\* the event loop runs a task start() created: perform_periodic_task begins
\* its first cycle.  The ready queue is first in, first out: the wake-up
\* Task.cancel() queued for the previous task runs before this first step.
PollerRun(p) ==
  /\ pc[p] = "new"
  /\ \A q \in Pollers : ~cancelReq[q]
  /\ BeginOp(p, "poll", NoData)

\* asyncio.sleep(sleep_time) ends: the next cycle begins
Wake(p) ==
  /\ pc[p] = "sleep"
  /\ ~cancelReq[p]
  /\ BeginOp(p, "poll", NoData)

\* what follows "await self.authenticate()": the request POST in
\* handle_authorize_request, the GET in the reconcile operation
NextStage_AlwaysGet(op) == "get"

NextStage(op) == IF op = "submit" THEN "post" ELSE "get"

\* authenticate gets past lines 144-151 when _get_response accepted the
\* answer and the answer has a "token" field
Authenticated_StatusOnly(status, hasToken) == get_response_ok(status)

Authenticated(status, hasToken) == get_response_ok(status) /\ hasToken

\* self.token after "self.token = self.response['token']" on an answer with
\* or without the field
StoredToken(t, hasToken) == IF hasToken THEN TokenFor(t) ELSE ""

\* authenticate: the answer to the get-token POST arrives
AuthResponse(t) ==
  /\ pc[t] = "auth_wait"
  /\ ~cancelReq[t]
  /\ \E status \in HttpStatuses, hasToken \in BOOLEAN :
       IF Authenticated(status, hasToken)
       THEN /\ token' = StoredToken(t, hasToken)
            /\ EnterLocked(t, NextStage(loc[t].op), loc[t],
                           StoredToken(t, hasToken), "free")
       ELSE /\ token' = IF get_response_ok(status) THEN "" ELSE token
            /\ pc' = [pc EXCEPT ![t] = EndPc(t, "raised")]
            /\ loc' = [loc EXCEPT ![t] =
                         EndLoc(@, IF get_response_ok(status)
                                   THEN "RuntimeError"
                                   ELSE ErrorOf(status))]
            /\ lock' = "free"
            /\ UNCHANGED waiters
  /\ UNCHANGED <<csc_failed_messages, cscs_succeeded, puts, nature, csc, conv, authList,
                 session, stopped, periodic_task, cancelReq>>

\* handle_authorize_request: the answer to the request POST arrives
PostResponse(t) ==
  /\ pc[t] = "post_wait"
  /\ ~cancelReq[t]
  /\ \E status \in HttpStatuses :
       /\ pc' = [pc EXCEPT ![t] = IF get_response_ok(status) THEN "returned"
                                  ELSE "raised"]
       /\ loc' = [loc EXCEPT ![t] =
                    EndLoc(@, IF get_response_ok(status) THEN "none"
                              ELSE ErrorOf(status))]
  /\ lock' = "free"
  /\ UNCHANGED <<csc_failed_messages, cscs_succeeded, puts, nature, csc, conv, authList,
                 token, session, stopped, waiters, periodic_task, cancelReq>>

\* process_approved_and_unprocessed_auth_requests: the answer to the GET
\* arrives.  With a non-empty list the first record is converted to
\* AuthRequestData and process_authorize_request is awaited, the lock held.
GetResponse(t) ==
  /\ pc[t] = "get_wait"
  /\ ~cancelReq[t]
  /\ \E status \in HttpStatuses,
        list \in {<<>>, ServiceRecords, FaultyRecords} :
       IF ~get_response_ok(status)
       THEN /\ pc' = [pc EXCEPT ![t] = EndPc(t, "raised")]
            /\ loc' = [loc EXCEPT ![t] = EndLoc(@, ErrorOf(status))]
            /\ lock' = "free"
            /\ UNCHANGED <<csc_failed_messages, cscs_succeeded>>
       ELSE IF list = <<>>
       THEN /\ pc' = [pc EXCEPT ![t] = IF loc[t].op = "poll" THEN "sleep"
                                       ELSE "returned"]
            /\ loc' = [loc EXCEPT ![t] = EndLoc(@, "none")]
            /\ lock' = "free"
            /\ UNCHANGED <<csc_failed_messages, cscs_succeeded>>
       ELSE /\ BeginCall(t, loc[t].op, list[1].data, list[1].id, Tail(list))
            /\ lock' = IF ValidateError(list[1].data) # "none" THEN "free"
                       ELSE lock
  /\ UNCHANGED <<puts, nature, csc, conv, authList, token, session, stopped, waiters, periodic_task,
                 cancelReq>>

(***************************************************************************)
(* The session and the periodic task.                                      *)
(***************************************************************************)

\* create_client_session: a new session unless one is open
create_client_session(sess) == IF sess = "open" THEN sess ELSE "open"

\* close_client_session: an open session is closed
close_client_session_KeepOpen(sess) == sess

close_client_session(sess) == IF sess = "open" THEN "closed" ELSE sess

\* self.periodic_task.cancel(): a request, delivered when the task next runs;
\* nothing for a future or task that is done
CancelRequested_Never(task) == cancelReq

CancelRequested(task) ==
  IF task \in Pollers /\ pc[task] \notin Ended
  THEN [cancelReq EXCEPT ![task] = TRUE]
  ELSE cancelReq

\* RestAuthorizeHandler.start
Start ==
  /\ \E i \in 1..MaxPollers :
       /\ pc[PollerNames[i]] \in Ended \cup {"unborn"}
       /\ \A j \in 1..(i - 1) : pc[PollerNames[j]] \notin Ended \cup {"unborn"}
       /\ pc' = [q \in Tasks |->
                   IF q = PollerNames[i] THEN "new"
                   ELSE IF q = periodic_task /\ pc[q] \in Ended THEN "unborn"
                   ELSE pc[q]]
       /\ loc' = [loc EXCEPT ![PollerNames[i]] = InitLoc]
       /\ periodic_task' = PollerNames[i]
  /\ session' = create_client_session(session)
  /\ cancelReq' = CancelRequested(periodic_task)
  /\ stopped' = "no"
  /\ UNCHANGED <<csc_failed_messages, cscs_succeeded, puts, nature, csc, conv,
                 authList, token, lock, waiters>>

\* a polling task that was created and has not ended
LivePoller(p) == pc[p] \notin Ended \cup {"unborn"}

\* RestAuthorizeHandler.stop.  It is remembered that stop() was called with
\* no polling task alive.
Stop ==
  /\ cancelReq' = CancelRequested(periodic_task)
  /\ session' = close_client_session(session)
  /\ stopped' = IF \E p \in Pollers : LivePoller(p) THEN "no" ELSE "idle"
  /\ UNCHANGED <<pc, loc, csc_failed_messages, cscs_succeeded, puts, nature,
                 csc, conv, authList, token, lock, waiters, periodic_task>>

\* RestAuthorizeHandler.__aenter__
AEnter ==
  /\ session' = create_client_session(session)
  /\ stopped' = "no"
  /\ UNCHANGED <<pc, loc, csc_failed_messages, cscs_succeeded, puts, nature,
                 csc, conv, authList, token, lock, waiters, periodic_task, cancelReq>>

\* RestAuthorizeHandler.__aexit__
AExit ==
  /\ session' = close_client_session(session)
  /\ UNCHANGED <<pc, loc, csc_failed_messages, cscs_succeeded, puts, nature,
                 csc, conv, authList, token, lock, waiters, periodic_task, cancelReq,
                 stopped>>

\* the sequence without the task
RECURSIVE Without(_, _)
Without(ws, t) ==
  IF ws = <<>> THEN <<>>
  ELSE IF Head(ws) = t THEN Without(Tail(ws), t)
  ELSE <<Head(ws)>> \o Without(Tail(ws), t)

\* the lock once CancelledError was raised in task p suspended at `at`: the
\* "async with self.lock" p is in is left and releases the lock, unless the
\* exit of "async with salobj.Remote" inside it suspends first
LockAfterCancel_Held(p, at) == lock

LockAfterCancel(p, at) == IF lock = p /\ at # "set_wait" THEN "free" ELSE lock

\* the cancelled task runs: CancelledError is raised at the await it is
\* suspended in and unwinds the "async with" blocks around it.  Inside
\* "async with salobj.Remote(...)" the exit awaits Remote.close(): the task
\* stays suspended there, the lock still held.
CancelDeliver(p) ==
  /\ cancelReq[p]
  /\ pc[p] \notin Ended \cup {"unborn"}
  /\ cancelReq' = [cancelReq EXCEPT ![p] = FALSE]
  /\ pc' = [pc EXCEPT ![p] = IF pc[p] = "set_wait" THEN "remote_exit"
                             ELSE EndPc(p, "cancelled")]
  /\ loc' = [loc EXCEPT ![p] = IF pc[p] = "set_wait"
                                THEN [@ EXCEPT !.exc = "CancelledError"]
                                ELSE EndLoc(@, "CancelledError")]
  /\ waiters' = Without(waiters, p)
  /\ lock' = LockAfterCancel(p, pc[p])
  /\ UNCHANGED <<csc_failed_messages, cscs_succeeded, puts, nature, csc, conv, authList,
                 token, session, stopped, periodic_task>>

\* Remote.close() ends: the CancelledError leaves the "async with self.lock"
\* and ends the task
RemoteClosed(p) ==
  /\ pc[p] = "remote_exit"
  /\ ~cancelReq[p]
  /\ pc' = [pc EXCEPT ![p] = EndPc(p, "cancelled")]
  /\ lock' = "free"
  /\ loc' = [loc EXCEPT ![p] = EndLoc(@, "CancelledError")]
  /\ UNCHANGED <<csc_failed_messages, cscs_succeeded, puts, nature, csc, conv, authList,
                 token, session, stopped, waiters, periodic_task, cancelReq>>

NextRest ==
  \/ Start
  \/ Stop
  \/ AEnter
  \/ AExit
  \/ \E t \in Callers : Submit(t)
  \/ \E t \in Callers : ManualReconcile(t)
  \/ \E p \in Pollers : PollerRun(p)
  \/ \E p \in Pollers : Wake(p)
  \/ \E t \in Tasks : LockGranted(t)
  \/ \E t \in Tasks : AuthResponse(t)
  \/ \E t \in Tasks : PostResponse(t)
  \/ \E t \in Tasks : GetResponse(t)
  \/ \E t \in Tasks : SetAuthListDone(t)
  \/ \E p \in Pollers : CancelDeliver(p)
  \/ \E p \in Pollers : RemoteClosed(p)

SpecRest == InitRest /\ [][NextRest]_vars

\* the polling task alone, started and never stopped, under fair scheduling:
\* the event loop runs every task that is ready, every awaited answer
\* arrives and every sleep ends
PollerStep ==
  \/ \E p \in Pollers : PollerRun(p)
  \/ \E p \in Pollers : Wake(p)
  \/ \E p \in Pollers : LockGranted(p)
  \/ \E p \in Pollers : AuthResponse(p)
  \/ \E p \in Pollers : GetResponse(p)
  \/ \E p \in Pollers : SetAuthListDone(p)
  \/ \E p \in Pollers : CancelDeliver(p)
  \/ \E p \in Pollers : RemoteClosed(p)

NextPoll ==
  \/ Start
  \/ PollerStep

SpecPollFair == InitRest /\ [][NextPoll]_vars /\ WF_vars(PollerStep)

\* two coroutines call process_authorize_request of one handler object and
\* interleave at its awaits
InitConcurrent ==
  /\ InitHandler
  /\ nature \in [TargetNames -> {"up", "down"}]

NextConcurrent ==
  \/ \E t \in ConcurrentCallers : CallProcess(t)
  \/ \E t \in ConcurrentCallers : SetAuthListDone(t)

SpecConcurrent == InitConcurrent /\ [][NextConcurrent]_vars


(***************************************************************************)
(* Properties of the delivery loop, checked under SpecDispatch.            *)
(***************************************************************************)

\* a call of the delivery loop on a request that passed validation has ended
EndedValidCall(t, ops) ==
  /\ pc[t] \in {"returned", "raised"}
  /\ loc[t].op \in ops
  /\ ValidateError(loc[t].data) = "none"

\* C1: when a call of the delivery loop on a valid request ends, every
\* target of the request was contacted exactly once, every target that timed
\* out or rejected is recorded as failed, and every target that answers holds
\* the requested change, wherever the failing targets came in the iteration.
C1_EveryTargetAttempted ==
  \A t \in Callers :
    EndedValidCall(t, {"process", "auto"}) =>
      LET targets == validate_request(loc[t].data)
          failed == IF loc[t].op = "auto" THEN loc[t].failed
                    ELSE DOMAIN csc_failed_messages
      IN  /\ Range(loc[t].contacted) = targets
          /\ Len(loc[t].contacted) = Cardinality(targets)
          /\ \A c \in targets :
               IF nature[c] = "up"
               THEN authList[c] = <<loc[t].data.authorized_users,
                                    loc[t].data.non_authorized_cscs>>
               ELSE c \in failed

\* a call over three targets has ended; the first one contacted failed and
\* the last one contacted answered
C1_Witness ==
  \E t \in Callers :
    /\ EndedValidCall(t, {"process", "auto"})
    /\ Len(loc[t].contacted) = 3
    /\ nature[loc[t].contacted[1]] # "up"
    /\ nature[loc[t].contacted[3]] = "up"
    /\ authList[loc[t].contacted[3]] # Unset

\* C2: whenever process_authorize_request returns, cscs_succeeded and the
\* keys of csc_failed_messages are disjoint and together are exactly the
\* validated target set.
C2_OutcomeIsPartition ==
  \A t \in Callers :
    (pc[t] = "returned" /\ loc[t].op = "process") =>
      /\ cscs_succeeded \cap DOMAIN csc_failed_messages = {}
      /\ cscs_succeeded \cup DOMAIN csc_failed_messages
           = validate_request(loc[t].data)

\* process_authorize_request has returned with targets on both sides
C2_Witness ==
  \E t \in Callers :
    /\ pc[t] = "returned"
    /\ loc[t].op = "process"
    /\ cscs_succeeded # {}
    /\ DOMAIN csc_failed_messages # {}

ReconcilePcs == {"auth_lock", "auth_wait", "get_lock", "get_wait",
                 "set_wait", "remote_exit"}

\* the pcs of a task whose REST call is in flight
InFlightPcs == {"auth_wait", "get_wait", "post_wait"}

\* the task has had setAuthList accepted by a target of the record it is
\* working on
Delivered(t) ==
  \E i \in 1..Len(loc[t].contacted) :
    /\ loc[t].contacted[i] # loc[t].cur
    /\ nature[loc[t].contacted[i]] = "up"

\* C4: a failure inside a reconciliation cycle does not end the polling
\* task: no polling task ever ends with an exception.
C4_PollerSurvivesFailure ==
  \A p \in Pollers : pc[p] # "raised"

\* C5: at most one polling task is inside the reconciliation operation at
\* any time.
C5_OneReconcileAtATime ==
  Cardinality({p \in Pollers : pc[p] \in ReconcilePcs}) <= 1

\* C6: two polling tasks that have not finished never exist together.
C6_OneLivePoller ==
  Cardinality({p \in Pollers : pc[p] \notin Ended \cup {"unborn"}}) <= 1

\* C7: a polling task is never cancelled inside a record whose setAuthList
\* was already accepted by a target while the record's PUT was not sent.
C7_NoRecordTornByCancel ==
  \A p \in Pollers :
    (pc[p] = "remote_exit" /\ loc[p].rec # 0) => ~Delivered(p)

\* C8: the token a submit POST or a poll GET sends is the token the same
\* operation's authenticate obtained.
C8_SendsOwnToken ==
  \A t \in Tasks :
    pc[t] \in {"get_wait", "post_wait"} => loc[t].sentToken = TokenFor(t)

\* C9: a task whose REST call is in flight holds the lock, so no two REST
\* calls are in flight together.
C9_RestCallsUnderLock ==
  /\ \A t \in Tasks : pc[t] \in InFlightPcs => lock = t
  /\ Cardinality({t \in Tasks : pc[t] \in InFlightPcs}) <= 1

\* a poll GET or submit POST is in flight while another task, itself past
\* its own authenticate, is queued for the lock
C9_Witness ==
  \E t \in Tasks, u \in Tasks :
    /\ t # u
    /\ pc[t] \in {"get_wait", "post_wait"}
    /\ pc[u] \in {"get_lock", "post_lock"}
    /\ \E i \in 1..Len(waiters) : waiters[i] = u

\* C10: the token and the session change only in a step of the task that
\* holds the lock.
C10_WritesUnderLock ==
  [][(token' # token \/ session' # session) =>
       \E t \in Tasks : lock = t /\ pc'[t] # pc[t]]_vars

(***************************************************************************)
(* Properties of the reconcile operation and its execute PUT (SpecRest),   *)
(* stated on the caller that awaits the operation.                         *)
(***************************************************************************)

\* the errors validate_request raises
ValidationErrors == {"ValueError", "ExpectedError"}

\* the errors a REST call raises
RestErrors == {"ClientError", "AssertionError", "RuntimeError",
               "RuntimeError Session is closed"}
                \cup {ErrorOf(s) : s \in HttpStatuses}

\* the record of the approval service with this id
RecordById(id) ==
  CHOOSE r \in Range(ServiceRecords) \cup Range(FaultyRecords) : r.id = id

\* the reconcile operation of task t has contacted every target of the
\* record it took from the fetched list
FinishedDelivery(t) ==
  /\ loc[t].op = "reconcile"
  /\ loc[t].rec # 0
  /\ pc[t] # "set_wait"
  /\ loc[t].exc \notin ValidationErrors

\* the executionStatus the approval service holds for a record
ExecutionStatusAtService(id) ==
  IF \E i \in 1..Len(puts) : puts[i].id = id
  THEN LET last == CHOOSE i \in 1..Len(puts) :
                     /\ puts[i].id = id
                     /\ \A j \in (i + 1)..Len(puts) : puts[j].id # id
       IN  puts[last].execution_status
  ELSE "Pending"

\* C11: once a cycle has delivered a record to every target of the record,
\* exactly one execute PUT for the record's id has been sent.
C11_OnePutPerRecord ==
  \A t \in Callers :
    FinishedDelivery(t) =>
      Cardinality({i \in 1..Len(puts) : puts[i].id = loc[t].rec}) = 1

\* C12: the PUT of a delivered record reports Successful exactly when no
\* target of the record failed, Failed otherwise, and its message lists the
\* succeeded and the failed targets, each sorted.
C12_PutReportsOutcome ==
  \A t \in Callers :
    FinishedDelivery(t) =>
      LET targets == validate_request(RecordById(loc[t].rec).data)
          bad == {c \in targets : nature[c] # "up"}
      IN  \E i \in 1..Len(puts) :
            /\ puts[i].id = loc[t].rec
            /\ puts[i].execution_status =
                 (IF bad = {} THEN "Successful" ELSE "Failed")
            /\ puts[i].execution_message.updated = sorted(targets \ bad)
            /\ puts[i].execution_message.failed = sorted(bad)

\* C13: a record a cycle has delivered has left Pending at the approval
\* service, so no later cycle fetches and dispatches it again.
C13_RecordLeavesPending ==
  \A t \in Callers :
    FinishedDelivery(t) =>
      ExecutionStatusAtService(loc[t].rec) \in {"Successful", "Failed"}

\* C14: a reconcile operation that ends for another reason than a failed
\* REST call or a record that fails validation has dispatched every record
\* of the list it fetched.
C14_LaterRecordsProcessed ==
  \A t \in Callers :
    ( /\ loc[t].op = "reconcile"
      /\ pc[t] \in {"returned", "raised"}
      /\ loc[t].exc \notin RestErrors \cup ValidationErrors )
    => loc[t].left = <<>>

\* C15: the validation error of one fetched record never leaves the
\* reconcile operation.
C15_RecordErrorAbsorbed ==
  \A t \in Callers :
    (loc[t].op = "reconcile" /\ pc[t] = "raised")
    => loc[t].exc \notin ValidationErrors

(***************************************************************************)
(* Properties of validation and of the immediate handler's error           *)
(* (SpecDispatch).                                                         *)
(***************************************************************************)

\* the request has a target list that is empty or blank
EmptyTargets(data) == Strip(data.cscs_to_change) = <<>>

\* the entries of a comma separated list, a leading + or - removed
Entries(s) == {Strip(v) : v \in Range(Split(StripPrefix(s)))}

\* the request has an empty target list, a malformed target, a malformed
\* user or a malformed de-authorized component
Malformed(data) ==
  \/ EmptyTargets(data)
  \/ \E c \in Entries(data.cscs_to_change) : ~CSC_NAME_INDEX_RE(c)
  \/ data.authorized_users # <<>>
       /\ \E u \in Entries(data.authorized_users) : ~USER_HOST_RE(u)
  \/ data.non_authorized_cscs # <<>>
       /\ \E c \in Entries(data.non_authorized_cscs) : ~CSC_NAME_INDEX_RE(c)

\* C16: a request whose target list is empty or blank is rejected with the
\* "No CSCs specified" ExpectedError.
C16_EmptyTargetsExpectedError ==
  \A t \in Callers :
    ( /\ loc[t].op \in {"process", "auto"}
      /\ pc[t] = "raised"
      /\ EmptyTargets(loc[t].data) )
    => loc[t].exc = "ExpectedError"

C18_ErrorCarriesOutcome ==
  \A t \in Callers :
    (EndedValidCall(t, {"auto"}) /\ pc[t] = "raised") =>
      LET msg == AutoErrorMessage(loc[t].cscs, loc[t].failed)
      IN  /\ msg.failed = {c \in loc[t].cscs : nature[c] # "up"}
          /\ msg.succeeded = {c \in loc[t].cscs : nature[c] = "up"}
          /\ \A c \in msg.failed : AckErrorMessage(nature[c]) \in msg.reasons

(***************************************************************************)
(* Properties of the submit path and of _get_response (SpecRest).          *)
(***************************************************************************)

\* the status is in the 2xx range
Is2xx(status) == status \in {"200", "201"}

C20_2xxIsSuccess ==
  \A t \in Callers :
    \A s \in {x \in HttpStatuses : Is2xx(x)} : loc[t].exc # ErrorOf(s)

(***************************************************************************)
(* Properties of authenticate (SpecRest).                                  *)
(***************************************************************************)

\* the pcs of an operation that got past "await self.authenticate()"
AfterAuthPcs == {"get_lock", "get_wait", "post_lock", "post_wait"}

\* C21: an operation leaves authenticate in one of two ways only: the
\* token of its own get-token answer is stored and it goes on to its GET or
\* POST, or the operation ends there and then, no target contacted and no
\* PUT sent; an answer that is refused or has no token never lets it go on.
C21_FailedAuthenticateEndsOperation ==
  [][\A t \in Tasks :
       (pc[t] = "auth_wait" /\ pc'[t] # "auth_wait") =>
         \/ /\ pc'[t] \in AfterAuthPcs
            /\ token' = TokenFor(t)
         \/ /\ pc'[t] \in Ended \cup {"unborn"}
            /\ loc'[t].contacted = <<>>
            /\ UNCHANGED <<authList, puts>>]_vars

\* a submit has ended with the error authenticate raises for an answer
\* without a token; the token was cleared and no target's authList changed
C21_Witness ==
  \E t \in Callers :
    /\ loc[t].op = "submit"
    /\ pc[t] = "raised"
    /\ loc[t].exc = "RuntimeError"
    /\ token = ""
    /\ \A c \in TargetNames : authList[c] = Unset

(***************************************************************************)
(* Properties of the delivery loop with any kind of target failure         *)
(* (SpecAnyTarget) and with two interleaved calls (SpecConcurrent).        *)
(***************************************************************************)

\* C22: process_authorize_request on a valid request never ends with an
\* exception, whatever way the delivery to a target fails.
C22_NeverRaisesForATarget ==
  \A t \in Callers :
    (loc[t].op = "process" /\ ValidateError(loc[t].data) = "none") =>
      pc[t] # "raised"

\* C23: when a process_authorize_request call returns, the handler's
\* succeeded set and failed mapping are the ones of that call run alone: the
\* targets of its request that answer, and the targets that do not.
C23_OutcomeAsIfAlone ==
  [][\A t \in ConcurrentCallers :
       (pc[t] = "set_wait" /\ pc'[t] = "returned") =>
         /\ cscs_succeeded' = {c \in loc[t].cscs : nature[c] = "up"}
         /\ DOMAIN csc_failed_messages'
              = {c \in loc[t].cscs : nature[c] # "up"}]_vars

\* C24: two calls that were given the same request and have returned
\* contacted the targets in the same sequence.
C24_SameOrderForSameTargets ==
  \A t, u \in ConcurrentCallers :
    ( /\ pc[t] = "returned"
      /\ pc[u] = "returned"
      /\ loc[t].data = loc[u].data )
    => loc[t].contacted = loc[u].contacted

(***************************************************************************)
(* Properties of the delivery loop, one call at a time (SpecDispatch).     *)
(***************************************************************************)

\* the targets a call has recorded as failed so far
FailedSoFar(t) == IF loc[t].op = "auto" THEN loc[t].failed
                  ELSE DOMAIN csc_failed_messages

\* C25: while a call waits for one target's setAuthList, that target is
\* the only one of the call in flight: every target contacted before it has
\* ended, in the change or in a recorded failure, no target was contacted
\* twice, and the targets not yet contacted are all still to come.
C25_OneDeliveryAtATime ==
  \A t \in Callers :
    (pc[t] = "set_wait" /\ loc[t].op \in {"process", "auto"}) =>
      LET k == Len(loc[t].contacted)
      IN  /\ k >= 1
          /\ loc[t].cur = loc[t].contacted[k]
          /\ Cardinality(Range(loc[t].contacted)) = k
          /\ loc[t].todo = loc[t].cscs \ Range(loc[t].contacted)
          /\ \A i \in 1..(k - 1) :
               IF nature[loc[t].contacted[i]] = "up"
               THEN authList[loc[t].contacted[i]] # Unset
               ELSE loc[t].contacted[i] \in FailedSoFar(t)

\* a call waits for its third target after its first target timed out
C25_Witness ==
  \E t \in Callers :
    /\ pc[t] = "set_wait"
    /\ loc[t].op = "process"
    /\ Len(loc[t].contacted) = 3
    /\ nature[loc[t].contacted[1]] = "down"
    /\ loc[t].contacted[1] \in DOMAIN csc_failed_messages
    /\ loc[t].todo = {}

\* C26: every target that accepted a setAuthList of a call holds the two
\* strings of the request, character for character, the leading + or -
\* included; so all targets of one request hold the same two strings.
C26_StringsForwardedVerbatim ==
  \A t \in Callers :
    EndedValidCall(t, {"process", "auto"}) =>
      \A c \in Range(loc[t].contacted) :
        nature[c] = "up" =>
          /\ authList[c][1] = loc[t].data.authorized_users
          /\ authList[c][2] = loc[t].data.non_authorized_cscs

\* two targets accepted the request whose users string is "u@h, h@u" and
\* whose de-authorized components string is "-C:1"
C26_Witness ==
  \E t \in Callers :
    /\ EndedValidCall(t, {"process", "auto"})
    /\ Len(loc[t].contacted) = 2
    /\ \A c \in Range(loc[t].contacted) :
         /\ nature[c] = "up"
         /\ authList[c][1] = UsersTwo
         /\ Head(authList[c][2]) = "-"

\* the distinct entries of a comma separated target list, each trimmed
DistinctTrimmed(s) == {Strip(Split(s)[i]) : i \in 1..Len(Split(s))}

\* C27: a call on a well-formed request has, when it ends, contacted each
\* distinct trimmed entry of the target list exactly once and nothing else.
C27_OnePerDistinctTarget ==
  \A t \in Callers :
    ( /\ pc[t] \in {"returned", "raised"}
      /\ loc[t].op \in {"process", "auto"}
      /\ ~Malformed(loc[t].data) )
    => /\ Range(loc[t].contacted) = DistinctTrimmed(loc[t].data.cscs_to_change)
       /\ Len(loc[t].contacted)
            = Cardinality(DistinctTrimmed(loc[t].data.cscs_to_change))

\* the call on "B,A,B" has ended after two deliveries, and the call on
\* "A, B,C" after three
C27_Witness ==
  \E t \in Callers :
    /\ pc[t] \in {"returned", "raised"}
    /\ loc[t].op = "process"
    /\ loc[t].data.cscs_to_change = <<"B", ",", "A", ",", "B">>
    /\ Len(loc[t].contacted) = 2
    /\ Range(loc[t].contacted) = {<<"A">>, <<"B">>}

(***************************************************************************)
(* Properties of the session and of stop() (SpecRest).                     *)
(***************************************************************************)

\* C28: after a stop() that found no polling task alive (before any
\* start(), after an earlier stop(), after the polling task ended), and
\* until start() or __aenter__ runs, no polling task is alive and the
\* session is closed or absent.
C28_StopIsSafe ==
  stopped = "idle" =>
    /\ session \in {"none", "closed"}
    /\ \A p \in Pollers : ~LivePoller(p)

\* stop() was called after the polling task had ended by itself, and it
\* closed the session the task had used
C28_Witness ==
  /\ stopped = "idle"
  /\ periodic_task \in Pollers
  /\ pc[periodic_task] = "raised"
  /\ session = "closed"

\* C29: no operation ends with the error of a REST call attempted on an
\* absent or a closed session.
C29_NoRestCallWithoutSession ==
  \A t \in Callers :
    loc[t].exc \notin {"AssertionError", "RuntimeError Session is closed"}

(***************************************************************************)
(* Properties of Authorize.configure (SpecCsc).                            *)
(***************************************************************************)

\* C30: after configure was called, the mode the CSC works in is the one
\* of the configuration it was called with, the deferred mode included.
C30_ConfiguredModeIsSelected ==
  csc.requested # NoConfig => csc.config = csc.requested

(***************************************************************************)
(* Properties of the conversions and of the field validation               *)
(* (SpecValidate).                                                         *)
(***************************************************************************)

EntriesPass(s, field) ==
  \A i \in 1..Len(Split(s)) :
    IF field = "authorized_users"
      THEN check_user_host(Strip(Split(s)[i]))
      ELSE check_csc(Strip(Split(s)[i]))

\* the value is accepted: it is empty, or, the one leading + or - taken
\* away if there is one, every entry passes the check
FieldAccepted(s, field) ==
  \/ s = <<>>
  \/ s # <<>> /\ Head(s) \in {"+", "-"} /\ EntriesPass(Tail(s), field)
  \/ s # <<>> /\ Head(s) \notin {"+", "-"} /\ EntriesPass(s, field)

\* C32: a value of authorized_users or non_authorized_cscs passes the
\* validation exactly when it is empty or, exactly one leading + or -
\* removed, every entry is valid; without such a prefix the first character
\* is part of the first entry.
C32_OnePrefixCharacterIgnored ==
  conv.fn \in {"authorized_users", "non_authorized_cscs"} =>
    (conv.result = "none" <=> FieldAccepted(conv.input, conv.fn))

\* the users value "+A@1" passed the validation
C32_Witness ==
  /\ conv.fn = "authorized_users"
  /\ conv.input = <<"+", "A", "@", "1">>
  /\ conv.result = "none"

(***************************************************************************)
(* Properties of the checks of utils.py and handler_utils.py (SpecCheck).  *)
(***************************************************************************)

\* C33: the identifier check accepts a string exactly when it is a letter
\* followed by letters, digits or underscores, optionally followed by ":"
\* and one or more digits.
C33_CscCheckIsExact ==
  conv.fn \in {"check_csc", "check_cscs"} =>
    (conv.result = "accepted" <=> CscNameIndex(conv.input))

\* C34: the user entry check accepts a string exactly when it has the form
\* user@host, the user part starting with a letter, the host part with a
\* letter or digit, both otherwise of letters, digits, "-", "." and "_".
C34_UserHostCheckIsExact ==
  conv.fn \in {"check_user_host", "check_user_hosts"} =>
    (conv.result = "accepted" <=> UserHost(conv.input))

(***************************************************************************)
(* Properties of the handler's outcome fields (SpecDispatch).              *)
(***************************************************************************)

\* C35: after AutoAuthorizeHandler.handle_authorize_request has ended on
\* a request some targets of which failed, the keys of the handler's
\* csc_failed_messages are exactly the failed targets.
C35_AutoHandlerRecordsFailures ==
  \A t \in Callers :
    (EndedValidCall(t, {"auto"}) /\ loc[t].failed # {}) =>
      DOMAIN csc_failed_messages = loc[t].failed

\* C38: when a process_authorize_request call has ended, returned or
\* raised, the two outcome fields name only targets of that call: nothing
\* at all when the request failed validation.
C38_NoLeftoverOutcome ==
  \A t \in Callers :
    (pc[t] \in {"returned", "raised"} /\ loc[t].op = "process") =>
      (DOMAIN csc_failed_messages) \cup cscs_succeeded
        \subseteq (IF ValidateError(loc[t].data) = "none"
                   THEN validate_request(loc[t].data) ELSE {})

(***************************************************************************)
(* Properties of the polling task's life cycle and of the lock (SpecRest), *)
(* and of the polling loop under fair scheduling (SpecPollFair).           *)
(***************************************************************************)

\* the polling task is Running: start() created it, it has not ended and
\* nobody has cancelled it
Running ==
  /\ periodic_task \in Pollers
  /\ LivePoller(periodic_task)
  /\ ~cancelReq[periodic_task]
  /\ pc[periodic_task] # "remote_exit"

\* in this step task p begins a cycle, sends a REST call or sends a
\* setAuthList
Issues(p) ==
  /\ pc'[p] \in {"auth_lock", "auth_wait", "get_lock", "get_wait",
                 "post_lock", "post_wait", "set_wait", "put_wait"}
  /\ pc'[p] # pc[p] \/ loc'[p].cur # loc[p].cur

\* this step is a start(): a polling task was created
Started == \E p \in Pollers : pc'[p] = "new" /\ pc[p] # "new"

\* C36: the polling task is Stopped initially, Running after start() and
\* Stopped after stop(); only start() makes it Running, and a polling task
\* begins a cycle, sends a REST call or sends a setAuthList only while it is
\* the Running task.
C36_StoppedRunningMachine ==
  /\ ~Running
  /\ [][ /\ Started => Running'
         /\ Stop => ~Running'
         /\ (~Running /\ Running') => Started
         /\ \A p \in Pollers :
              Issues(p) => (Running /\ p = periodic_task) ]_vars

\* stop() cancelled the polling task, which has ended; the session is closed
C36_Witness ==
  /\ periodic_task \in Pollers
  /\ pc[periodic_task] = "cancelled"
  /\ session = "closed"
  /\ \A p \in Pollers : ~LivePoller(p)

\* C37: a record the polling task has fetched from the approval service
\* is eventually reported back with an execute PUT.
C37_RecordEventuallyReported ==
  (\E p \in Pollers : pc[p] = "set_wait" /\ loc[p].rec = 1)
    ~> (\E i \in 1..Len(puts) : puts[i].id = 1)

\* the pcs at which a task is inside "async with self.lock"
LockedPcs == {"auth_wait", "get_wait", "post_wait", "set_wait", "put_wait",
              "remote_exit"}

\* C39: the lock is held only by a task that is inside one of its
\* "async with self.lock" blocks, never by an operation that has returned,
\* raised or was cancelled, and the tasks queued for the lock are all still
\* waiting for it.
C39_LockFreeAfterEnd ==
  /\ lock # "free" => pc[lock] \in LockedPcs
  /\ \A t \in Tasks :
       (pc[t] \in Ended \cup {"idle", "unborn", "new", "sleep"}) => lock # t
  /\ \A i \in 1..Len(waiters) :
       pc[waiters[i]] \in {"auth_lock", "get_lock", "post_lock"}

\* the polling task was cancelled by stop() and has ended; a later
\* operation of a caller holds the lock
C39_Witness ==
  /\ periodic_task \in Pollers
  /\ pc[periodic_task] = "cancelled"
  /\ lock \in Callers

=============================================================================
